---- MODULE Spec2Model ----
(***************************************************************************)
(* porcus: pig latin for the whole Latin script.                           *)
(*                                                                         *)
(* A string is a sequence of characters; a character is named by a short   *)
(* ASCII string.  The characters of the model, with the Unicode codepoint  *)
(* each one stands for:                                                    *)
(*   "a" "A"          U+0061 U+0041   Latin vowel                          *)
(*   "s" "S"          U+0073 U+0053   Latin consonant                      *)
(*   "w" "W"          U+0077 U+0057   Latin consonant (default suffix)     *)
(*   "y" "Y"          U+0079 U+0059   Latin, ambiguous vowel               *)
(*   "a_acute"        U+00E1          NFD = a + U+0301                     *)
(*   "A_ACUTE"        U+00C1          NFD = A + U+0301                     *)
(*   "eszett"         U+00DF          lowercase, uppercases to "SS"        *)
(*   "acute"          U+0301          combining mark (script Inherited)    *)
(*   "apostrophe"     U+0027          word-internal punctuation (Common)   *)
(*   "9"              U+0039          digit (Common, uncased)              *)
(*   "space"          U+0020          white space (Common, uncased)        *)
(*   "alpha" "ALPHA"  U+03B1 U+0391   Greek letter (cased, not Latin)      *)
(*   "Dz"             U+01C5          Latin titlecase digraph: neither     *)
(*                                    uppercase nor lowercase              *)
(*   "DZ" "dz"        U+01C4 U+01C6   its uppercase and lowercase forms    *)
(* Indices are 0-based as in the source; TLA+ sequences are 1-based, so    *)
(* element i of a Rust slice is element i + 1 of the sequence.             *)
(***************************************************************************)
EXTENDS Integers, Sequences, FiniteSets, TLC

(* ---------------------------------------------------------------------- *)
(* Bounds                                                                  *)
(* ---------------------------------------------------------------------- *)

\* Longest input word unit, in characters.
MaxLen == 3

\* Characters an input word unit is drawn from.
InputChar ==
  {"a", "A", "s", "S", "y", "a_acute", "eszett", "acute", "apostrophe", "9", "alpha",
   "Dz", "space"}

\* All input texts.
Texts == UNION {[1..n -> InputChar] : n \in 0..MaxLen}

(* ---------------------------------------------------------------------- *)
(* src/lib.rs: default suffixes                                            *)
(* ---------------------------------------------------------------------- *)

DEFAULT_CONSONANT_SUFFIX == <<"a", "y">>

DEFAULT_VOWEL_SUFFIX == <<"w", "a", "y">>

\* Suffixes a PigLatinTransformer is constructed with.
ConsonantSuffixes == {DEFAULT_CONSONANT_SUFFIX, <<>>, <<"A", "y">>}

VowelSuffixes == {DEFAULT_VOWEL_SUFFIX, <<>>}

(* ---------------------------------------------------------------------- *)
(* src/latin.rs: the three codepoint sets, restricted to the characters    *)
(* of the model                                                            *)
(* ---------------------------------------------------------------------- *)

VOWELS == {"A", "a"}

AMBIGUOUS_VOWELS == {"Y", "y"}

CONSONANT_LIKE_PUNCTUATION == {"apostrophe"}

(* ---------------------------------------------------------------------- *)
(* Unicode primitives the source calls                                     *)
(* ---------------------------------------------------------------------- *)

\* char::script().full_name() = "Latin"
ScriptIsLatin(c) ==
  c \in {"a", "A", "s", "S", "w", "W", "y", "Y", "a_acute", "A_ACUTE", "eszett",
         "Dz", "DZ", "dz"}

\* char::is_uppercase
is_uppercase(c) == c \in {"A", "S", "W", "Y", "A_ACUTE", "ALPHA", "DZ"}

\* char::is_lowercase
is_lowercase(c) == c \in {"a", "s", "w", "y", "a_acute", "eszett", "alpha", "dz"}

\* char::to_uppercase: the uppercase mapping of one character, a string.
char_to_uppercase(c) ==
  CASE c = "a" -> <<"A">>
    [] c = "s" -> <<"S">>
    [] c = "w" -> <<"W">>
    [] c = "y" -> <<"Y">>
    [] c = "a_acute" -> <<"A_ACUTE">>
    [] c = "alpha" -> <<"ALPHA">>
    [] c = "eszett" -> <<"S", "S">>
    [] c = "Dz" -> <<"DZ">>
    [] c = "dz" -> <<"DZ">>
    [] OTHER -> <<c>>

\* char::to_lowercase: the lowercase mapping of one character, a string.
char_to_lowercase(c) ==
  CASE c = "A" -> <<"a">>
    [] c = "S" -> <<"s">>
    [] c = "W" -> <<"w">>
    [] c = "Y" -> <<"y">>
    [] c = "A_ACUTE" -> <<"a_acute">>
    [] c = "ALPHA" -> <<"alpha">>
    [] c = "Dz" -> <<"dz">>
    [] c = "DZ" -> <<"dz">>
    [] OTHER -> <<c>>

\* Canonical decomposition of one character.
char_nfd(c) ==
  CASE c = "a_acute" -> <<"a", "acute">>
    [] c = "A_ACUTE" -> <<"A", "acute">>
    [] OTHER -> <<c>>

\* Grapheme_Cluster_Break = Extend: the character joins the preceding cluster.
IsExtend(c) == c = "acute"

RECURSIVE concat(_)
\* [&str]::concat
concat(strs) == IF strs = <<>> THEN <<>> ELSE Head(strs) \o concat(Tail(strs))

\* str::to_uppercase
to_uppercase(s) == concat([i \in 1..Len(s) |-> char_to_uppercase(s[i])])

\* str::to_lowercase
to_lowercase(s) == concat([i \in 1..Len(s) |-> char_to_lowercase(s[i])])

\* UnicodeNormalization::nfd of a string
nfd(s) == concat([i \in 1..Len(s) |-> char_nfd(s[i])])

RECURSIVE graphemes_of(_)
\* UnicodeSegmentation::graphemes(true): extended grapheme clusters, in order
graphemes_of(s) ==
  IF s = <<>> THEN <<>>
  ELSE LET rest == graphemes_of(Tail(s))
       IN IF rest # <<>> /\ IsExtend(Head(Head(rest)))
          THEN <<<<Head(s)>> \o Head(rest)>> \o Tail(rest)
          ELSE <<<<Head(s)>>>> \o rest

\* Word_Break property of a character (UAX #29).
WordBreakClass(c) ==
  CASE c \in {"a", "A", "s", "S", "w", "W", "y", "Y", "a_acute", "A_ACUTE",
              "eszett", "alpha", "ALPHA", "Dz", "DZ", "dz"} -> "ALetter"
    [] c = "9" -> "Numeric"
    [] c = "apostrophe" -> "Single_Quote"
    [] c = "acute" -> "Extend"
    [] c = "space" -> "WSegSpace"
    [] OTHER -> "Other"

\* Positions of s that are not absorbed by the preceding character (WB4:
\* Extend characters are ignored after any character; a leading one is not).
WordBreakBases(s) == {i \in 1..Len(s) : i = 1 \/ ~IsExtend(s[i])}

\* Class seen by the word-boundary rules at a base position.
WordBreakAt(s, i) ==
  IF i \in WordBreakBases(s) /\ ~IsExtend(s[i]) THEN WordBreakClass(s[i]) ELSE "Other"

\* Nearest base position before i (0 if none) and after i (0 if none).
PrevBase(s, i) ==
  IF \E j \in WordBreakBases(s) : j < i
  THEN CHOOSE j \in WordBreakBases(s) : j < i /\ \A m \in WordBreakBases(s) : m < i => m <= j
  ELSE 0

NextBase(s, i) ==
  IF \E j \in WordBreakBases(s) : j > i
  THEN CHOOSE j \in WordBreakBases(s) : j > i /\ \A m \in WordBreakBases(s) : m > i => m >= j
  ELSE 0

\* There is a word boundary just before position i > 1 of s (WB3d-WB12,
\* WB999).
WordBoundaryBefore(s, i) ==
  /\ i \in WordBreakBases(s)
  /\ ~(WordBreakClass(s[i - 1]) = "WSegSpace" /\ WordBreakClass(s[i]) = "WSegSpace")
  /\ LET p == PrevBase(s, i)
         pp == PrevBase(s, p)
         n == NextBase(s, i)
         cls(j) == WordBreakAt(s, j)
         letter(j) == cls(j) = "ALetter"
         digit(j) == cls(j) = "Numeric"
         quote(j) == cls(j) = "Single_Quote"
     IN ~ \/ (letter(p) \/ digit(p)) /\ (letter(i) \/ digit(i))
          \/ letter(p) /\ quote(i) /\ letter(n)
          \/ letter(pp) /\ quote(p) /\ letter(i)
          \/ digit(p) /\ quote(i) /\ digit(n)
          \/ digit(pp) /\ quote(p) /\ digit(i)

RECURSIVE SplitFrom(_, _, _)
\* The units of s from position i on, the unit in progress starting at from.
SplitFrom(s, from, i) ==
  IF i > Len(s) THEN (IF from > Len(s) THEN <<>> ELSE <<SubSeq(s, from, Len(s))>>)
  ELSE IF i > from /\ WordBoundaryBefore(s, i)
       THEN <<SubSeq(s, from, i - 1)>> \o SplitFrom(s, i, i + 1)
       ELSE SplitFrom(s, from, i + 1)

\* UnicodeSegmentation::split_word_bounds: the word-boundary units, in order
split_word_bounds(s) == SplitFrom(s, 1, 1)

(* ---------------------------------------------------------------------- *)
(* src/char_type.rs                                                        *)
(* ---------------------------------------------------------------------- *)

\* enum CharType
CharType == {"Vowel", "Consonant", "Ambiguous", "NonLatin", "Empty"}

\* get_first_nfd_char_of_grapheme_at that takes the first character as stored,
\* without decomposing.
get_first_char_of_grapheme_at(graphemes, index) ==
  IF index + 1 \in DOMAIN graphemes
  THEN IF graphemes[index + 1] = <<>> THEN <<>> ELSE <<Head(graphemes[index + 1])>>
  ELSE <<>>

\* Option<char>: <<>> is None, <<c>> is Some(c).
get_first_nfd_char_of_grapheme_at(graphemes, index) ==
  IF index + 1 \in DOMAIN graphemes
  THEN LET decomposed == nfd(graphemes[index + 1])
       IN IF decomposed = <<>> THEN <<>> ELSE <<Head(decomposed)>>
  ELSE <<>>

\* get_char_type_at that tests the script before the three sets.
get_char_type_at_script_first(graphemes, index) ==
  LET first == get_first_nfd_char_of_grapheme_at(graphemes, index)
  IN IF first = <<>> THEN "Empty"
     ELSE LET first_char == first[1]
          IN IF ScriptIsLatin(first_char) THEN "Consonant"
             ELSE IF first_char \in VOWELS THEN "Vowel"
             ELSE IF first_char \in AMBIGUOUS_VOWELS THEN "Ambiguous"
             ELSE IF first_char \in CONSONANT_LIKE_PUNCTUATION THEN "Consonant"
             ELSE "NonLatin"

get_char_type_at(graphemes, index) ==
  LET first == get_first_nfd_char_of_grapheme_at(graphemes, index)
  IN IF first = <<>> THEN "Empty"
     ELSE LET first_char == first[1]
          IN IF first_char \in VOWELS THEN "Vowel"
             ELSE IF first_char \in AMBIGUOUS_VOWELS THEN "Ambiguous"
             ELSE IF first_char \in CONSONANT_LIKE_PUNCTUATION THEN "Consonant"
             ELSE IF ScriptIsLatin(first_char) THEN "Consonant"
             ELSE "NonLatin"

(* ---------------------------------------------------------------------- *)
(* src/case.rs                                                             *)
(* ---------------------------------------------------------------------- *)

\* enum Case
Case == {"Lower", "Upper", "Sentence", "Mixed"}

\* detect_case that tries the Upper arm before the Sentence arm.
detect_case_upper_first(s) ==
  IF s = <<>> THEN "Lower"
  ELSE LET first_char == Head(s)
           first_is_lower == ~is_uppercase(first_char)
           first_is_upper == ~is_lowercase(first_char)
           rest_is_upper == \A i \in 2..Len(s) : ~is_lowercase(s[i])
           rest_is_lower == \A i \in 2..Len(s) : ~is_uppercase(s[i])
       IN IF first_is_lower /\ rest_is_lower THEN "Lower"
          ELSE IF first_is_upper /\ rest_is_upper THEN "Upper"
          ELSE IF first_is_upper /\ rest_is_lower THEN "Sentence"
          ELSE "Mixed"

detect_case(s) ==
  IF s = <<>> THEN "Lower"
  ELSE LET first_char == Head(s)
           first_is_lower == ~is_uppercase(first_char)
           first_is_upper == ~is_lowercase(first_char)
           rest_is_upper == \A i \in 2..Len(s) : ~is_lowercase(s[i])
           rest_is_lower == \A i \in 2..Len(s) : ~is_uppercase(s[i])
       IN IF first_is_lower /\ rest_is_lower THEN "Lower"
          ELSE IF first_is_upper /\ rest_is_lower THEN "Sentence"
          ELSE IF first_is_upper /\ rest_is_upper THEN "Upper"
          ELSE "Mixed"

\* to_sentence_case that leaves everything after the first grapheme as it is.
to_sentence_case_rest_unchanged(s) ==
  LET clusters == graphemes_of(s)
  IN IF clusters # <<>>
     THEN LET first_grapheme == Head(clusters)
              rest == SubSeq(s, Len(first_grapheme) + 1, Len(s))
          IN to_uppercase(first_grapheme) \o rest
     ELSE <<>>

to_sentence_case(s) ==
  LET clusters == graphemes_of(s)
  IN IF clusters # <<>>
     THEN LET first_grapheme == Head(clusters)
              rest == SubSeq(s, Len(first_grapheme) + 1, Len(s))
          IN to_uppercase(first_grapheme) \o to_lowercase(rest)
     ELSE <<>>

\* to_case whose Sentence arm forgets the capital.
to_case_sentence_all_lower(s, case) ==
  CASE case = "Lower" -> to_lowercase(s)
    [] case = "Upper" -> to_uppercase(s)
    [] case = "Sentence" -> to_lowercase(s)
    [] case = "Mixed" -> s

\* to_case whose Lower arm returns the input.
to_case_lower_unchanged(s, case) ==
  CASE case = "Lower" -> s
    [] case = "Upper" -> to_uppercase(s)
    [] case = "Sentence" -> to_sentence_case(s)
    [] case = "Mixed" -> s

\* to_case whose Upper arm capitalises the first grapheme only.
to_case_upper_as_sentence(s, case) ==
  CASE case = "Lower" -> to_lowercase(s)
    [] case = "Upper" -> to_sentence_case(s)
    [] case = "Sentence" -> to_sentence_case(s)
    [] case = "Mixed" -> s

to_case(s, case) ==
  CASE case = "Lower" -> to_lowercase(s)
    [] case = "Upper" -> to_uppercase(s)
    [] case = "Sentence" -> to_sentence_case(s)
    [] case = "Mixed" -> s

(* ---------------------------------------------------------------------- *)
(* src/pig_latin.rs                                                        *)
(* ---------------------------------------------------------------------- *)

\* should_skip_word that skips only the empty word.
should_skip_word_only_empty(s) == s = <<>>

should_skip_word(s) == s = <<>> \/ ~ScriptIsLatin(Head(s))

\* has_consonant_at that takes every Ambiguous grapheme for a consonant.
has_consonant_at_no_lookahead(graphemes, index) ==
  LET char_type == get_char_type_at(graphemes, index)
  IN CASE char_type = "Consonant" -> TRUE
       [] char_type = "Ambiguous" -> TRUE
       [] OTHER -> FALSE

\* has_consonant_at that takes an Ambiguous grapheme for a consonant when
\* no vowel follows it.
has_consonant_at_ambiguous_before_non_vowel(graphemes, index) ==
  LET char_type == get_char_type_at(graphemes, index)
  IN CASE char_type = "Consonant" -> TRUE
       [] char_type = "Ambiguous" -> get_char_type_at(graphemes, index + 1) # "Vowel"
       [] OTHER -> FALSE

has_consonant_at(graphemes, index) ==
  LET char_type == get_char_type_at(graphemes, index)
  IN CASE char_type = "Consonant" -> TRUE
       [] char_type = "Ambiguous" -> get_char_type_at(graphemes, index + 1) = "Vowel"
       [] OTHER -> FALSE

\* format_uncased that leaves the consonant prefix in front.
format_uncased_no_rotation(s, graphemes, prefix_length, c_suffix, v_suffix) ==
  IF prefix_length = 0 THEN s \o v_suffix ELSE s \o c_suffix

\* format_uncased that appends the consonant suffix to every word.
format_uncased_one_suffix(s, graphemes, prefix_length, c_suffix, v_suffix) ==
  IF prefix_length = 0 THEN s \o c_suffix
  ELSE LET prefix == SubSeq(graphemes, 1, prefix_length)
           suffix == SubSeq(graphemes, prefix_length + 1, Len(graphemes))
       IN concat(suffix) \o concat(prefix) \o c_suffix

\* word_to_uncased_pig_latin after the prefix scan: the formatted result.
format_uncased(s, graphemes, prefix_length, c_suffix, v_suffix) ==
  IF prefix_length = 0 THEN s \o v_suffix
  ELSE LET prefix == SubSeq(graphemes, 1, prefix_length)
           suffix == SubSeq(graphemes, prefix_length + 1, Len(graphemes))
       IN concat(suffix) \o concat(prefix) \o c_suffix

(* ---------------------------------------------------------------------- *)
(* State                                                                   *)
(* ---------------------------------------------------------------------- *)

VARIABLES
  consonant_suffix,  \* PigLatinTransformer.consonant_suffix
  vowel_suffix,      \* PigLatinTransformer.vowel_suffix
  text,              \* argument of to_pig_latin
  units,             \* split_word_bounds of text
  mapped,            \* outputs of the units mapped so far, in order
  s,                 \* argument of word_to_case_matched_pig_latin
  graphemes,         \* word_to_uncased_pig_latin: graphemes of s
  prefix_length,     \* word_to_uncased_pig_latin: loop counter
  pig,               \* uncased result of the current unit
  result,            \* value returned by to_pig_latin
  index,             \* argument of get_char_type_at and has_consonant_at
  case_arg,          \* argument `case` of to_case
  ret,               \* value returned by a direct call of a public function
  pc                 \* position in the running call

vars ==
  <<consonant_suffix, vowel_suffix, text, units, mapped, s, graphemes,
    prefix_length, pig, result, index, case_arg, ret, pc>>

\* PigLatinTransformer::new, then a call of to_pig_latin awaiting execution.
Init ==
  /\ consonant_suffix \in ConsonantSuffixes
  /\ vowel_suffix \in VowelSuffixes
  /\ text \in Texts
  /\ units = <<>>
  /\ mapped = <<>>
  /\ s = <<>>
  /\ graphemes = <<>>
  /\ prefix_length = 0
  /\ pig = <<>>
  /\ result = <<>>
  /\ index = 0
  /\ case_arg = "Mixed"
  /\ ret = "none"
  /\ pc = "call"

\* to_pig_latin: segment the text into word-boundary units.
SplitWordBounds ==
  /\ pc = "call"
  /\ units' = split_word_bounds(text)
  /\ pc' = "map"
  /\ UNCHANGED <<index, case_arg, ret, consonant_suffix, vowel_suffix, text, mapped, s, graphemes,
                 prefix_length, pig, result>>

\* word_to_case_matched_pig_latin on the next unit: the unit is skipped.
SkipWord ==
  /\ pc = "map"
  /\ Len(mapped) < Len(units)
  /\ LET word == units[Len(mapped) + 1]
     IN /\ should_skip_word(word)
        /\ s' = word
        /\ mapped' = Append(mapped, word)
  /\ graphemes' = <<>>
  /\ prefix_length' = 0
  /\ pig' = <<>>
  /\ UNCHANGED <<index, case_arg, ret, consonant_suffix, vowel_suffix, text, units, result, pc>>

\* word_to_case_matched_pig_latin on the next unit: word_to_uncased_pig_latin
\* is entered and the unit decomposed into graphemes.
EnterUncased ==
  /\ pc = "map"
  /\ Len(mapped) < Len(units)
  /\ LET word == units[Len(mapped) + 1]
     IN /\ ~should_skip_word(word)
        /\ s' = word
        /\ graphemes' = graphemes_of(word)
  /\ prefix_length' = 0
  /\ pig' = <<>>
  /\ pc' = "scan"
  /\ UNCHANGED <<index, case_arg, ret, consonant_suffix, vowel_suffix, text, units, mapped, result>>

\* ScanConsonant that also steps over the grapheme after the consonant.
ScanConsonant_two_at_a_time ==
  /\ pc = "scan"
  /\ has_consonant_at(graphemes, prefix_length)
  /\ prefix_length' = prefix_length + 2
  /\ UNCHANGED <<index, case_arg, ret, consonant_suffix, vowel_suffix, text, units, mapped, s,
                 graphemes, pig, result, pc>>

\* One iteration of the prefix scan loop.
ScanConsonant ==
  /\ pc = "scan"
  /\ has_consonant_at(graphemes, prefix_length)
  /\ prefix_length' = prefix_length + 1
  /\ UNCHANGED <<index, case_arg, ret, consonant_suffix, vowel_suffix, text, units, mapped, s,
                 graphemes, pig, result, pc>>

\* The scan loop exits and word_to_uncased_pig_latin returns.
ReturnUncased ==
  /\ pc = "scan"
  /\ ~has_consonant_at(graphemes, prefix_length)
  /\ pig' = format_uncased(s, graphemes, prefix_length, consonant_suffix, vowel_suffix)
  /\ pc' = "case"
  /\ UNCHANGED <<index, case_arg, ret, consonant_suffix, vowel_suffix, text, units, mapped, s,
                 graphemes, prefix_length, result>>

\* MatchCase that takes the case to apply from the first unit of the text.
MatchCase_case_of_first_unit ==
  /\ pc = "case"
  /\ mapped' = Append(mapped, to_case(pig, detect_case(units[1])))
  /\ pc' = "map"
  /\ UNCHANGED <<index, case_arg, ret, consonant_suffix, vowel_suffix, text, units, s,
                 graphemes, prefix_length, pig, result>>

\* word_to_case_matched_pig_latin returns the case-matched word.
MatchCase ==
  /\ pc = "case"
  /\ mapped' = Append(mapped, to_case(pig, detect_case(s)))
  /\ pc' = "map"
  /\ UNCHANGED <<index, case_arg, ret, consonant_suffix, vowel_suffix, text, units, s, graphemes,
                 prefix_length, pig, result>>

\* to_pig_latin: all units are mapped; collect and concat.
Concat ==
  /\ pc = "map"
  /\ Len(mapped) = Len(units)
  /\ result' = concat(mapped)
  /\ pc' = "done"
  /\ UNCHANGED <<index, case_arg, ret, consonant_suffix, vowel_suffix, text, units, mapped, s,
                 graphemes, prefix_length, pig>>

Next ==
  \/ SplitWordBounds
  \/ SkipWord
  \/ EnterUncased
  \/ ScanConsonant
  \/ ReturnUncased
  \/ MatchCase
  \/ Concat

Spec == Init /\ [][Next]_vars

(* ---------------------------------------------------------------------- *)
(* Direct calls of the public functions of char_type                       *)
(* ---------------------------------------------------------------------- *)

\* Largest index passed to get_char_type_at (one past the longest slice).
MaxIndex == MaxLen + 1

\* Characters of the strings classified: one input character of each kind
\* that get_char_type_at tells apart, the precomposed letter and the mark.
SliceChar == InputChar \ {"A", "S", "eszett", "Dz", "space"}

SliceTexts == UNION {[1..n -> SliceChar] : n \in 0..MaxLen}

\* Slices passed as `graphemes`: the grapheme clusters of a text, the same
\* preceded by an empty string, and the text as a single element.
GraphemeSlices ==
  UNION {{graphemes_of(w), <<<<>>>> \o graphemes_of(w), <<w>>} : w \in SliceTexts}

InitCharType ==
  /\ consonant_suffix = DEFAULT_CONSONANT_SUFFIX
  /\ vowel_suffix = DEFAULT_VOWEL_SUFFIX
  /\ text = <<>>
  /\ units = <<>>
  /\ mapped = <<>>
  /\ s = <<>>
  /\ graphemes \in GraphemeSlices
  /\ prefix_length = 0
  /\ pig = <<>>
  /\ result = <<>>
  /\ index \in 0..MaxIndex
  /\ case_arg = "Mixed"
  /\ ret = "none"
  /\ pc = "call"

GetCharTypeAt ==
  /\ pc = "call"
  /\ ret' = get_char_type_at(graphemes, index)
  /\ pc' = "char_type"
  /\ UNCHANGED <<consonant_suffix, vowel_suffix, text, units, mapped, s,
                 graphemes, prefix_length, pig, result, index, case_arg>>

HasConsonantAt ==
  /\ pc = "call"
  /\ ret' = has_consonant_at(graphemes, index)
  /\ pc' = "has_consonant"
  /\ UNCHANGED <<consonant_suffix, vowel_suffix, text, units, mapped, s,
                 graphemes, prefix_length, pig, result, index, case_arg>>

NextCharType == GetCharTypeAt \/ HasConsonantAt

SpecCharType == InitCharType /\ [][NextCharType]_vars

(* ---------------------------------------------------------------------- *)
(* Direct calls of the public functions of case                            *)
(* ---------------------------------------------------------------------- *)

InitCase ==
  /\ consonant_suffix = DEFAULT_CONSONANT_SUFFIX
  /\ vowel_suffix = DEFAULT_VOWEL_SUFFIX
  /\ text = <<>>
  /\ units = <<>>
  /\ mapped = <<>>
  /\ s \in Texts
  /\ graphemes = <<>>
  /\ prefix_length = 0
  /\ pig = <<>>
  /\ result = <<>>
  /\ index = 0
  /\ case_arg \in Case
  /\ ret = "none"
  /\ pc = "call"

DetectCase ==
  /\ pc = "call"
  /\ ret' = detect_case(s)
  /\ pc' = "detected"
  /\ UNCHANGED <<consonant_suffix, vowel_suffix, text, units, mapped, s,
                 graphemes, prefix_length, pig, result, index, case_arg>>

ToCase ==
  /\ pc = "call"
  /\ ret' = to_case(s, case_arg)
  /\ pc' = "cased"
  /\ UNCHANGED <<consonant_suffix, vowel_suffix, text, units, mapped, s,
                 graphemes, prefix_length, pig, result, index, case_arg>>

NextCase == DetectCase \/ ToCase

SpecCase == InitCase /\ [][NextCase]_vars

(* ---------------------------------------------------------------------- *)
(* Properties                                                              *)
(* ---------------------------------------------------------------------- *)

\* The unit is empty or its first character's script is not Latin.
FirstNotLatin(u) == u = <<>> \/ ~ScriptIsLatin(Head(u))

\* Length of the maximal leading run of positions of gs at which
\* has_consonant_at is true.
ConsonantPrefixLength(gs) ==
  CHOOSE n \in 0..Len(gs) :
    /\ \A i \in 0..(n - 1) : has_consonant_at(gs, i)
    /\ ~has_consonant_at(gs, n)

\* seq ends with tail.
EndsWith(seq, tail) ==
  /\ Len(tail) <= Len(seq)
  /\ SubSeq(seq, Len(seq) - Len(tail) + 1, Len(seq)) = tail

\* C1: every unit that is empty or whose first character is not of the Latin
\* script is mapped to itself, whatever the suffixes; a text that is such a
\* unit (or is empty) is returned unchanged by to_pig_latin.
C1_SkippedUnitUnchanged ==
  /\ \A i \in DOMAIN mapped : FirstNotLatin(units[i]) => mapped[i] = units[i]
  /\ (pc = "done" /\ (text = <<>> \/ (units = <<text>> /\ FirstNotLatin(text))))
       => result = text

\* C1 witness: a two-character unit starting with a Greek letter and holding a
\* Latin letter was returned as it was, under non-empty suffixes.
C1_Witness ==
  /\ pc = "done"
  /\ units = <<text>>
  /\ Len(text) = 2
  /\ text[1] = "alpha"
  /\ ScriptIsLatin(text[2])
  /\ consonant_suffix # <<>>
  /\ vowel_suffix # <<>>
  /\ result = text

\* C2: when the consonant prefix of a transformed unit has N >= 1 graphemes,
\* the uncased result is graphemes N..end, then graphemes 0..N, then the
\* consonant suffix, N being the maximal leading run of has_consonant_at; if
\* the whole word is prefix the result is the word and the consonant suffix.
C2_ConsonantPrefixMoved ==
  pc = "case" =>
    LET gs == graphemes_of(s)
        N == ConsonantPrefixLength(gs)
    IN N >= 1 =>
         /\ pig = concat(SubSeq(gs, N + 1, Len(gs))) \o concat(SubSeq(gs, 1, N))
                    \o consonant_suffix
         /\ N = Len(gs) => pig = s \o consonant_suffix

\* C2 witness: a unit of three graphemes with a consonant prefix of two has
\* been formatted under a non-empty consonant suffix, and the order changed.
C2_Witness ==
  /\ pc = "case"
  /\ prefix_length = 2
  /\ Len(graphemes) = 3
  /\ consonant_suffix # <<>>
  /\ consonant_suffix # vowel_suffix
  /\ pig # s \o consonant_suffix

\* C3: a transformed unit has a consonant prefix of length 0 exactly when its
\* first grapheme is a Vowel or an Ambiguous one not followed by a Vowel, and
\* its uncased result is then the word followed by the vowel suffix.
C3_VowelInitialKeepsOrder ==
  pc = "case" =>
    LET gs == graphemes_of(s)
        first == get_char_type_at(gs, 0)
        second == get_char_type_at(gs, 1)
    IN /\ ConsonantPrefixLength(gs) = 0
            <=> (first = "Vowel" \/ (first = "Ambiguous" /\ second # "Vowel"))
       /\ ConsonantPrefixLength(gs) = 0 => pig = s \o vowel_suffix

\* C3 witness: a unit starting with an Ambiguous grapheme followed by a
\* consonant was formatted, the two suffixes being different.
C3_Witness ==
  /\ pc = "case"
  /\ prefix_length = 0
  /\ get_char_type_at(graphemes, 0) = "Ambiguous"
  /\ get_char_type_at(graphemes, 1) = "Consonant"
  /\ vowel_suffix # consonant_suffix
  /\ pig = s \o vowel_suffix

\* A letter that has both an uppercase and a lowercase form, each a single
\* character.
BiCased(c) ==
  c \in {"a", "A", "s", "S", "w", "W", "y", "Y", "a_acute", "A_ACUTE", "alpha", "ALPHA"}

OnlyBiCased(str) == \A i \in DOMAIN str : BiCased(str[i])

\* C5 as claimed: every Latin-initial unit and its rewritten form have the
\* same detected case, whichever of Lower, Upper, Sentence, Mixed it is.
C5_Original_CasePreserved ==
  \A i \in DOMAIN mapped :
    ~FirstNotLatin(units[i]) => detect_case(mapped[i]) = detect_case(units[i])

\* C5 amended: a Latin-initial unit whose detected case is Lower, Upper or
\* Sentence keeps its detected case when the unit and both suffixes consist
\* only of letters that have both case forms.
C5_CasePreservedForCasedLetters ==
  \A i \in DOMAIN mapped :
    ( /\ ~FirstNotLatin(units[i])
      /\ detect_case(units[i]) # "Mixed"
      /\ OnlyBiCased(units[i])
      /\ OnlyBiCased(consonant_suffix)
      /\ OnlyBiCased(vowel_suffix) )
    => detect_case(mapped[i]) = detect_case(units[i])

\* C5 witness: a Sentence-case unit of cased letters lost its capital to the
\* end of the word and the rewritten word is Sentence case again.
C5_Witness ==
  /\ pc = "map"
  /\ Len(mapped) = 1
  /\ units[1] = <<"S", "a", "s">>
  /\ consonant_suffix = <<"A", "y">>
  /\ OnlyBiCased(vowel_suffix)
  /\ mapped[1] = <<"A", "s", "s", "a", "y">>
  /\ detect_case(mapped[1]) = "Sentence"

\* The suffix appended to unit u: the vowel suffix when the consonant prefix
\* is empty, the consonant suffix otherwise.
SuffixFor(u) ==
  IF ConsonantPrefixLength(graphemes_of(u)) = 0 THEN vowel_suffix ELSE consonant_suffix

\* C6 as claimed: the rewritten unit ends with its suffix to which the case of
\* the unit has been applied.
C6_Original_SuffixInCaseOfWord ==
  \A i \in DOMAIN mapped :
    ~FirstNotLatin(units[i])
      => EndsWith(mapped[i], to_case(SuffixFor(units[i]), detect_case(units[i])))

\* The suffix as it appears at the end of a rewritten unit of the given case.
CaseAdjusted(suffix, case) ==
  CASE case = "Lower" -> to_lowercase(suffix)
    [] case = "Sentence" -> to_lowercase(suffix)
    [] case = "Upper" -> to_uppercase(suffix)
    [] case = "Mixed" -> suffix

\* C6 amended: the rewritten unit ends with the vowel suffix (empty consonant
\* prefix) or the consonant suffix (otherwise), lowercased for Lower and for
\* Sentence, uppercased for Upper, verbatim for Mixed.
C6_SuffixCaseAdjusted ==
  \A i \in DOMAIN mapped :
    ~FirstNotLatin(units[i])
      => EndsWith(mapped[i], CaseAdjusted(SuffixFor(units[i]), detect_case(units[i])))

\* C6 witness: a Sentence-case consonant-initial unit was rewritten with a
\* capitalised consonant suffix, which ends the result in lowercase.
C6_Witness ==
  /\ pc = "map"
  /\ Len(mapped) = 1
  /\ detect_case(units[1]) = "Sentence"
  /\ ConsonantPrefixLength(graphemes_of(units[1])) = 1
  /\ consonant_suffix = <<"A", "y">>
  /\ vowel_suffix # <<>>
  /\ EndsWith(mapped[1], <<"a", "y">>)
  /\ Len(mapped[1]) = Len(units[1]) + 2

\* g is one of the grapheme clusters of str.
HasGrapheme(str, g) == \E k \in DOMAIN graphemes_of(str) : graphemes_of(str)[k] = g

\* C7: every grapheme of a unit that classifies as NonLatin is a grapheme of
\* the output of that unit, unmodified, case included.
C7_NonLatinUnmodified ==
  \A i \in DOMAIN mapped :
    LET gs == graphemes_of(units[i])
    IN \A j \in DOMAIN gs :
         get_char_type_at(gs, j - 1) = "NonLatin" => HasGrapheme(mapped[i], gs[j])

\* C4: has_consonant_at is true exactly for a Consonant grapheme and for an
\* Ambiguous grapheme followed by a Vowel; it is false for Vowel, NonLatin and
\* Empty, and for an Ambiguous grapheme followed by a Consonant, an Ambiguous,
\* a NonLatin grapheme or the end of the slice.
C4_HasConsonantAt ==
  pc = "has_consonant" =>
    LET this == get_char_type_at(graphemes, index)
        following == get_char_type_at(graphemes, index + 1)
    IN /\ ret \in BOOLEAN
       /\ ret <=> (this = "Consonant" \/ (this = "Ambiguous" /\ following = "Vowel"))
       /\ this \in {"Vowel", "NonLatin", "Empty"} => ~ret
       /\ (this = "Ambiguous"
             /\ following \in {"Consonant", "Ambiguous", "NonLatin", "Empty"}) => ~ret

\* C4 witness: has_consonant_at returned true for an Ambiguous grapheme that
\* is not the first of its slice and is followed by a Vowel.
C4_Witness ==
  /\ pc = "has_consonant"
  /\ index >= 1
  /\ get_char_type_at(graphemes, index) = "Ambiguous"
  /\ get_char_type_at(graphemes, index + 1) = "Vowel"
  /\ ret = TRUE

\* C8: get_char_type_at returns Empty for an index out of range or an empty
\* grapheme; otherwise the first codepoint of the NFD form decides, first match
\* winning: vowel set, ambiguous set, word-internal punctuation (Consonant),
\* Latin script (Consonant), else NonLatin.  The result is one CharType.
C8_GetCharTypeAt ==
  pc = "char_type" =>
    /\ ret \in CharType
    /\ IF index >= Len(graphemes) THEN ret = "Empty"
       ELSE IF graphemes[index + 1] = <<>> THEN ret = "Empty"
       ELSE LET c == Head(char_nfd(Head(graphemes[index + 1])))
            IN /\ c \in VOWELS => ret = "Vowel"
               /\ (c \notin VOWELS /\ c \in AMBIGUOUS_VOWELS) => ret = "Ambiguous"
               /\ (c \notin VOWELS /\ c \notin AMBIGUOUS_VOWELS
                     /\ (c \in CONSONANT_LIKE_PUNCTUATION \/ ScriptIsLatin(c)))
                    => ret = "Consonant"
               /\ (c \notin VOWELS /\ c \notin AMBIGUOUS_VOWELS
                     /\ c \notin CONSONANT_LIKE_PUNCTUATION /\ ~ScriptIsLatin(c))
                    => ret = "NonLatin"

\* C8 witness: a precomposed vowel beyond the first position of a slice that
\* starts with an empty string was classified as Vowel.
C8_Witness ==
  /\ pc = "char_type"
  /\ index = 2
  /\ Len(graphemes) = 3
  /\ graphemes[1] = <<>>
  /\ graphemes[3] = <<"a_acute">>
  /\ ret = "Vowel"

\* Every element of the slice in canonically decomposed form.
Decomposed(gs) == [i \in DOMAIN gs |-> nfd(gs[i])]

\* C9: a grapheme and its canonically decomposed form (base codepoint followed
\* by combining marks) classify the same.
C9_CanonicalEquivalence ==
  pc = "char_type" => ret = get_char_type_at(Decomposed(graphemes), index)

\* C9 witness: a precomposed letter whose decomposed form is another string
\* was classified, and as a Vowel.
C9_Witness ==
  /\ pc = "char_type"
  /\ index < Len(graphemes)
  /\ graphemes[index + 1] = <<"a_acute">>
  /\ Decomposed(graphemes)[index + 1] = <<"a", "acute">>
  /\ ret = "Vowel"

\* The character is neither uppercase nor lowercase.
Uncased(c) == ~is_uppercase(c) /\ ~is_lowercase(c)

\* C10: detect_case is Lower for the empty word; otherwise Lower if no
\* character is uppercase, else Sentence if the first character is not
\* lowercase and no later one is uppercase, else Upper if no character is
\* lowercase, else Mixed.  A one-character uppercase word is Sentence, a word
\* of uncased characters is Lower, and Upper needs an uppercase character
\* after the first.
C10_DetectCase ==
  pc = "detected" =>
    LET no_upper == \A i \in DOMAIN s : ~is_uppercase(s[i])
        no_lower == \A i \in DOMAIN s : ~is_lowercase(s[i])
        sentence == /\ s # <<>>
                    /\ ~is_lowercase(s[1])
                    /\ \A i \in 2..Len(s) : ~is_uppercase(s[i])
    IN /\ ret = IF s = <<>> THEN "Lower"
                ELSE IF no_upper THEN "Lower"
                ELSE IF sentence THEN "Sentence"
                ELSE IF no_lower THEN "Upper"
                ELSE "Mixed"
       /\ (Len(s) = 1 /\ is_uppercase(s[1])) => ret = "Sentence"
       /\ (\A i \in DOMAIN s : Uncased(s[i])) => ret = "Lower"
       /\ ret = "Upper" => \E i \in 2..Len(s) : is_uppercase(s[i])

\* C10 witness: a word of one uppercase letter was detected as Sentence.
C10_Witness ==
  /\ pc = "detected"
  /\ s = <<"A">>
  /\ ret = "Sentence"

\* Input characters without case: neither uppercase nor lowercase, and left
\* alone by both case mappings (digit, apostrophe, combining mark).
NoCaseChars ==
  {c \in InputChar :
     Uncased(c) /\ char_to_uppercase(c) = <<c>> /\ char_to_lowercase(c) = <<c>>}

\* w with character c inserted after its first p characters.
InsertAt(w, p, c) == SubSeq(w, 1, p) \o <<c>> \o SubSeq(w, p + 1, Len(w))

\* C11: inserting an uncased character into a word at any position, the
\* first included, leaves the detected case as it was.
C11_UncasedInsertionKeepsCase ==
  pc = "detected" =>
    \A p \in 0..Len(s) : \A c \in NoCaseChars :
      detect_case(InsertAt(s, p, c)) = ret

\* What to_case is to return: every character lowercased (Lower), every
\* character uppercased (Upper), the first grapheme cluster uppercased and
\* the characters after it lowercased (Sentence), the input (Mixed).
ExpectedCased(w, c) ==
  LET lower(x) == concat([i \in DOMAIN x |-> char_to_lowercase(x[i])])
      upper(x) == concat([i \in DOMAIN x |-> char_to_uppercase(x[i])])
      clusters == graphemes_of(w)
  IN CASE c = "Lower" -> lower(w)
       [] c = "Upper" -> upper(w)
       [] c = "Sentence" ->
            IF w = <<>> THEN <<>>
            ELSE upper(Head(clusters)) \o lower(concat(Tail(clusters)))
       [] c = "Mixed" -> w

\* Both case mappings of every character of w are one character.
OneToOneMappings(w) ==
  \A i \in DOMAIN w :
    Len(char_to_uppercase(w[i])) = 1 /\ Len(char_to_lowercase(w[i])) = 1

\* C12 as claimed: to_case returns the word in the requested case, and the
\* number of graphemes of the result is that of the input.
C12_Original_ToCaseKeepsGraphemes ==
  pc = "cased" =>
    /\ ret = ExpectedCased(s, case_arg)
    /\ Len(graphemes_of(ret)) = Len(graphemes_of(s))

\* C12 amended: to_case returns the word in the requested case (empty for
\* empty); where every character has one-character case mappings, the result
\* has as many characters and graphemes as the input and each character is
\* the input's character at that position or one of its case forms.
C12_ToCase ==
  pc = "cased" =>
    /\ ret = ExpectedCased(s, case_arg)
    /\ s = <<>> => ret = <<>>
    /\ OneToOneMappings(s) =>
         /\ Len(ret) = Len(s)
         /\ Len(graphemes_of(ret)) = Len(graphemes_of(s))
         /\ \A i \in DOMAIN s :
              <<ret[i]>> \in {<<s[i]>>, char_to_uppercase(s[i]), char_to_lowercase(s[i])}

\* C12 witness: a lowercase vowel with a combining mark followed by a capital
\* was put in Sentence case: the cluster is capitalised, the rest lowercased.
C12_Witness ==
  /\ pc = "cased"
  /\ case_arg = "Sentence"
  /\ s = <<"a", "acute", "S">>
  /\ ret = <<"A", "acute", "s">>

\* The output of one unit as a function of the unit and the two suffixes.
PigLatinOfUnit(u, c_suffix, v_suffix) ==
  IF FirstNotLatin(u) THEN u
  ELSE LET gs == graphemes_of(u)
           N == ConsonantPrefixLength(gs)
           uncased == IF N = 0 THEN u \o v_suffix
                      ELSE concat(SubSeq(gs, N + 1, Len(gs))) \o concat(SubSeq(gs, 1, N))
                             \o c_suffix
       IN to_case(uncased, detect_case(u))

RECURSIVE ConcatOutputs(_, _, _)
\* f(u1) ++ ... ++ f(un) for the units us, in order.
ConcatOutputs(us, c_suffix, v_suffix) ==
  IF us = <<>> THEN <<>>
  ELSE PigLatinOfUnit(Head(us), c_suffix, v_suffix)
         \o ConcatOutputs(Tail(us), c_suffix, v_suffix)

\* C13: the units are mapped in order, each to an output that depends only on
\* the unit and the suffixes; to_pig_latin returns the concatenation of these
\* outputs, one per unit of the text, and the empty text for the empty text.
C13_UnitsMappedIndependently ==
  /\ Len(mapped) <= Len(units)
  /\ \A i \in DOMAIN mapped :
       mapped[i] = PigLatinOfUnit(units[i], consonant_suffix, vowel_suffix)
  /\ pc = "done" =>
       /\ Len(mapped) = Len(units)
       /\ units = split_word_bounds(text)
       /\ result = ConcatOutputs(units, consonant_suffix, vowel_suffix)
       /\ text = <<>> => result = <<>>

\* C13 witness: a text of two transformed units of different case around a
\* skipped one has been returned.
C13_Witness ==
  /\ pc = "done"
  /\ Len(units) = 3
  /\ ~FirstNotLatin(units[1])
  /\ FirstNotLatin(units[2])
  /\ ~FirstNotLatin(units[3])
  /\ detect_case(units[1]) # detect_case(units[3])
  /\ consonant_suffix # <<>>
  /\ vowel_suffix # <<>>
  /\ result = mapped[1] \o units[2] \o mapped[3]

\* Upper bound on the number of steps left in the call of to_pig_latin: the
\* units still to map, each worth one pass of the scan loop over at most
\* Len(text) graphemes plus its entry, exit and case matching.
StepsLeft ==
  LET per_unit == Len(text) + 3
      left == Len(units) - Len(mapped)
  IN CASE pc = "call" -> (Len(text) + 1) * per_unit + 2
       [] pc = "map" -> left * per_unit + 1
       [] pc = "scan" -> left * per_unit - prefix_length
       [] pc = "case" -> left * per_unit - Len(text) - 1
       [] pc = "done" -> 0

\* C14: in every call the scan counter stays between 0 and the number of
\* graphemes of the word, so graphemes[0..prefix_length] and
\* graphemes[prefix_length..] are in range when the loop exits; no more
\* units are mapped than there are, so a step is possible until the call
\* returns; and every step, each loop iteration included, lowers a
\* natural-number bound on the steps left, so the loop terminates and a
\* result string is returned for every word.
C14_ScanTerminatesInRange ==
  /\ [](/\ prefix_length \in 0..Len(graphemes)
        /\ pc \in {"scan", "case"} => graphemes = graphemes_of(s)
        /\ StepsLeft \in Nat
        /\ Len(mapped) <= Len(units)
        /\ pc \in {"call", "map", "scan", "case", "done"})
  /\ [][StepsLeft' < StepsLeft]_vars

\* C14 witness: the scan loop ran to the end of an all-consonant word of
\* three graphemes and the result was formatted.
C14_Witness ==
  /\ pc = "case"
  /\ Len(graphemes) = 3
  /\ prefix_length = 3
  /\ pig = s \o consonant_suffix

\* Lowercasing leaves every character of w that is not uppercase as it is,
\* uppercasing leaves every character that is not lowercase as it is, and no
\* character after the first of the first grapheme cluster is lowercase.
CaseStable(w) ==
  /\ \A i \in DOMAIN w :
       /\ ~is_uppercase(w[i]) => char_to_lowercase(w[i]) = <<w[i]>>
       /\ ~is_lowercase(w[i]) => char_to_uppercase(w[i]) = <<w[i]>>
  /\ w # <<>> =>
       LET first == Head(graphemes_of(w))
       IN \A j \in 2..Len(first) : ~is_lowercase(first[j])

\* The unit is transformed and its consonant prefix is empty.
VowelInitial(u) ==
  /\ ~FirstNotLatin(u)
  /\ ConsonantPrefixLength(graphemes_of(u)) = 0

\* C15 as claimed: every unit is a fixed point of to_case under its own
\* detected case, and with both suffixes empty every vowel-initial unit is
\* mapped to itself.
C15_Original_OwnCaseIsIdentity ==
  /\ \A i \in DOMAIN units : to_case(units[i], detect_case(units[i])) = units[i]
  /\ (consonant_suffix = <<>> /\ vowel_suffix = <<>>) =>
       \A i \in DOMAIN mapped : VowelInitial(units[i]) => mapped[i] = units[i]

\* C15: every unit whose characters the case mappings leave alone unless they
\* are of the case being mapped from (no titlecase letter, no lowercase mark
\* in the first grapheme cluster) is a fixed point of to_case under its own
\* detected case, and with both suffixes empty every such vowel-initial unit
\* is mapped to itself.
C15_OwnCaseIsIdentity ==
  /\ \A i \in DOMAIN units :
       CaseStable(units[i]) => to_case(units[i], detect_case(units[i])) = units[i]
  /\ (consonant_suffix = <<>> /\ vowel_suffix = <<>>) =>
       \A i \in DOMAIN mapped :
         (VowelInitial(units[i]) /\ CaseStable(units[i])) => mapped[i] = units[i]

\* C15 witness: with both suffixes empty a vowel-initial unit of three
\* characters in sentence case was returned as it was.
C15_Witness ==
  /\ pc = "done"
  /\ consonant_suffix = <<>>
  /\ vowel_suffix = <<>>
  /\ units = <<text>>
  /\ Len(text) = 3
  /\ detect_case(text) = "Sentence"
  /\ get_char_type_at(graphemes_of(text), 0) = "Vowel"
  /\ result = text

\* C16: during and after the scan every grapheme of the consonant prefix
\* classifies as Consonant or Ambiguous, never Vowel, NonLatin or Empty; an
\* Ambiguous one is followed by a Vowel, and once the loop has exited it is
\* the last grapheme of the prefix.
C16_AmbiguousOnlyLastInPrefix ==
  pc \in {"scan", "case"} =>
    \A i \in 0..(prefix_length - 1) :
      LET char_type == get_char_type_at(graphemes, i)
      IN /\ char_type \in {"Consonant", "Ambiguous"}
         /\ char_type = "Ambiguous" =>
              /\ get_char_type_at(graphemes, i + 1) = "Vowel"
              /\ pc = "case" => i = prefix_length - 1

\* C16 witness: the scan exited with a prefix of a Consonant and an
\* Ambiguous grapheme, the grapheme after the prefix being a Vowel.
C16_Witness ==
  /\ pc = "case"
  /\ prefix_length = 2
  /\ get_char_type_at(graphemes, 0) = "Consonant"
  /\ get_char_type_at(graphemes, 1) = "Ambiguous"
  /\ get_char_type_at(graphemes, 2) = "Vowel"

====
